---- MODULE Spec2Model ----
(***************************************************************************)
(* A model of ibis' schema abstraction (ibis/expr/schema.py) and of its    *)
(* BigQuery backend (ibis/bigquery/client.py): Schema construction, the    *)
(* import of BigQuery column descriptors, pandas schema inference, the     *)
(* binding of query parameters and the client's query execution.           *)
(*                                                                         *)
(* A call of a function is a behaviour of two states: the initial state    *)
(* holds the function's name in op and its input, drawn from a bounded set,*)
(* in arg, with pc = "call"; the function's action runs the whole function,*)
(* puts its outcome in ret and sets pc to "done".  A Python exception is   *)
(* an outcome [ok |-> FALSE, err |-> <name>].  The client is modelled with *)
(* its state: a call of _execute_query moves through the construction of   *)
(* the query, the binding of its parameters, the submission to the remote  *)
(* service and the wait for the result.                                    *)
(***************************************************************************)
EXTENDS Integers, Sequences, FiniteSets, TLC

VARIABLES pc, op, arg, ret, client, query, jobs

vars == <<pc, op, arg, ret, client, query, jobs>>

(***************************************************************************)
(* Bounds of the model.                                                    *)
(***************************************************************************)
\* the longest column list given to a Schema constructor or held by a table
MaxCols == 2

\* the most child fields of a RECORD descriptor
MaxChildren == 2

\* the deepest nesting of RECORD descriptors
MaxDepth == 2

\* the most fields of the struct type a parameter is declared with
MaxFields == 3

(***************************************************************************)
(* Outcomes and sequence helpers.                                          *)
(***************************************************************************)
Return(v) == [ok |-> TRUE, val |-> v]

Raise(e) == [ok |-> FALSE, err |-> e]

\* the value of ret before the call has run
NoCall == [ok |-> TRUE, val |-> "none"]

\* the call of function f has run
Called(f) == op = f /\ pc = "done"

SeqsUpTo(S, n) == UNION {[1..k -> S] : k \in 0..n}

Range(s) == {s[i] : i \in 1..Len(s)}

IsUnique(s) == \A i, j \in 1..Len(s) : s[i] = s[j] => i = j

\* the first and the second components of a sequence of pairs (zip(*values))
Firsts(pairs) == [i \in 1..Len(pairs) |-> pairs[i][1]]

Seconds(pairs) == [i \in 1..Len(pairs) |-> pairs[i][2]]

(***************************************************************************)
(* The type algebra (ibis.expr.datatypes), as far as the two files use it. *)
(***************************************************************************)
Prim(k) == [tag |-> "prim", kind |-> k]

Array(t) == [tag |-> "Array", value_type |-> t]

Struct(names, types) == [tag |-> "Struct", names |-> names, types |-> types]

\* dt.dtype applied to a value that is a DataType already
dtype(t) == t

(***************************************************************************)
(* Python dictionaries: a sequence of <<key, value>> pairs with pairwise   *)
(* distinct keys, in iteration order.                                      *)
(***************************************************************************)
Keys(d) == {d[i][1] : i \in 1..Len(d)}

\* d[k] = v: a new key goes last, a known key keeps its place
DictSet(d, k, v) ==
    IF k \in Keys(d)
    THEN [i \in 1..Len(d) |-> IF d[i][1] = k THEN <<k, v>> ELSE d[i]]
    ELSE Append(d, <<k, v>>)

\* OrderedDict(pairs): the pairs are inserted one by one
RECURSIVE OrderedDict(_)
OrderedDict(pairs) ==
    IF pairs = <<>> THEN <<>>
    ELSE LET n == Len(pairs)
         IN DictSet(OrderedDict(SubSeq(pairs, 1, n - 1)), pairs[n][1], pairs[n][2])

\* d.setdefault(k, v): only a new key is inserted
setdefault(d, k, v) == IF k \in Keys(d) THEN d ELSE Append(d, <<k, v>>)

(***************************************************************************)
(* Schema (schema.py 11-123).                                              *)
(***************************************************************************)
\* the dict of line 34: one entry per distinct name
name_locs(names) == Range(names)

\* Schema.__init__
Schema(names, types) ==
    IF Cardinality(name_locs(names)) < Len(names)
    THEN Raise("IntegrityError")
    ELSE Return([names |-> names,
                 types |-> [i \in 1..Len(types) |-> dtype(types[i])]])

\* Schema.from_tuples: an empty list of pairs is given the two empty lists
from_tuples(values) ==
    IF values # <<>> THEN Schema(Firsts(values), Seconds(values))
    ELSE Schema(<<>>, <<>>)

\* Schema.from_dict: Schema(*zip(*dictionary.items())); the zip of no pair
\* yields nothing, and Schema() is then called without its two arguments
from_dict(dictionary) ==
    IF dictionary = <<>> THEN Raise("TypeError")
    ELSE Schema(Firsts(dictionary), Seconds(dictionary))

\* the schema dispatcher on a dict
schema_from_dict(d) == from_dict(d)

(***************************************************************************)
(* Inputs of the Schema constructors.                                      *)
(***************************************************************************)
ColNames == {"a", "ts", "_PARTITIONTIME"}

ColTypes == {Prim("int64"), Prim("string")}

ColPairs == ColNames \X ColTypes

PairLists == SeqsUpTo(ColPairs, MaxCols)

Dicts == {d \in PairLists : IsUnique(Firsts(d))}

(***************************************************************************)
(* The calls on Schema.                                                    *)
(***************************************************************************)
CallSchema ==
    /\ op = "Schema"
    /\ pc = "call"
    /\ pc' = "done"
    /\ ret' = Schema(Firsts(arg), Seconds(arg))
    /\ UNCHANGED <<op, arg, client, query, jobs>>

CallFromTuples ==
    /\ op = "from_tuples"
    /\ pc = "call"
    /\ pc' = "done"
    /\ ret' = from_tuples(arg)
    /\ UNCHANGED <<op, arg, client, query, jobs>>

CallFromDict ==
    /\ op = "from_dict"
    /\ pc = "call"
    /\ pc' = "done"
    /\ ret' = from_dict(arg)
    /\ UNCHANGED <<op, arg, client, query, jobs>>

(***************************************************************************)
(* C1: every sequence of (name, type) pairs with pairwise distinct names   *)
(* makes a Schema whose names and types are the input, in order, and every *)
(* input with a repeated name fails with the integrity error, whichever    *)
(* constructor is used.                                                    *)
(***************************************************************************)
C1_RoundTripOrIntegrityError ==
    (op \in {"Schema", "from_tuples", "from_dict"} /\ pc = "done") =>
        IF IsUnique(Firsts(arg))
        THEN ret = Return([names |-> Firsts(arg), types |-> Seconds(arg)])
        ELSE ret = Raise("IntegrityError")

\* the same statement of the two constructors that take sequences
Schema_SequencesRoundTrip ==
    (op \in {"Schema", "from_tuples"} /\ pc = "done") =>
        IF IsUnique(Firsts(arg))
        THEN ret = Return([names |-> Firsts(arg), types |-> Seconds(arg)])
        ELSE ret = Raise("IntegrityError")

\* and of from_dict, but for the empty dictionary
Schema_FromDictRoundTrip ==
    (Called("from_dict") /\ arg # <<>>) =>
        ret = Return([names |-> Firsts(arg), types |-> Seconds(arg)])

(***************************************************************************)
(* BigQuery column descriptors (bq.schema.SchemaField) and their import    *)
(* (client.py 31-75).                                                      *)
(***************************************************************************)
SchemaField(name, field_type, mode, fields) ==
    [tag |-> "SchemaField", name |-> name, field_type |-> field_type,
     mode |-> mode, fields |-> fields]

LEGACY_TO_STANDARD(typ) ==
    CASE typ = "INTEGER" -> "INT64"
      [] typ = "FLOAT" -> "FLOAT64"
      [] typ = "BOOLEAN" -> "BOOL"
      [] OTHER -> typ

\* a kind the table does not know is passed through as the string it is
DTYPE_TO_IBIS_TYPE(typ) ==
    CASE typ = "INT64" -> Prim("int64")
      [] typ = "FLOAT64" -> Prim("double")
      [] typ = "BOOL" -> Prim("boolean")
      [] typ = "STRING" -> Prim("string")
      [] typ = "DATE" -> Prim("date")
      [] typ = "DATETIME" -> Prim("timestamp")
      [] typ = "TIME" -> Prim("time")
      [] typ = "TIMESTAMP" -> Prim("timestamp")
      [] typ = "BYTES" -> Prim("binary")
      [] OTHER -> [tag |-> "str", kind |-> typ]

\* the mutant of the import: the Array is wrapped around each child of a
\* repeated RECORD instead of around the resolved Struct
RECURSIVE bigquery_field_to_ibis_dtype_array_first(_)
bigquery_field_to_ibis_dtype_array_first(field) ==
    LET typ == field.field_type
        fields == field.fields
        kids == [i \in 1..Len(fields) |->
                    bigquery_field_to_ibis_dtype_array_first(fields[i])]
        wrap(t) == IF field.mode = "REPEATED" THEN Array(t) ELSE t
    IN  IF typ = "RECORD"
        THEN IF fields = <<>> \/ \E i \in 1..Len(fields) : ~kids[i].ok
             THEN Raise("AssertionError")
             ELSE Return(Struct([i \in 1..Len(fields) |-> fields[i].name],
                                [i \in 1..Len(fields) |-> wrap(kids[i].val)]))
        ELSE Return(wrap(DTYPE_TO_IBIS_TYPE(LEGACY_TO_STANDARD(typ))))

RECURSIVE bigquery_field_to_ibis_dtype(_)
bigquery_field_to_ibis_dtype(field) ==
    LET typ == field.field_type
        fields == field.fields
        kids == [i \in 1..Len(fields) |-> bigquery_field_to_ibis_dtype(fields[i])]
        ibis_type ==
            IF typ = "RECORD"
            THEN IF fields = <<>> THEN Raise("AssertionError")
                 ELSE IF \E i \in 1..Len(fields) : ~kids[i].ok
                      THEN kids[CHOOSE i \in 1..Len(fields) :
                                  /\ ~kids[i].ok
                                  /\ \A j \in 1..(i - 1) : kids[j].ok]
                      ELSE Return(Struct([i \in 1..Len(fields) |-> fields[i].name],
                                         [i \in 1..Len(fields) |-> kids[i].val]))
            ELSE Return(DTYPE_TO_IBIS_TYPE(LEGACY_TO_STANDARD(typ)))
    IN  IF ~ibis_type.ok THEN ibis_type
        ELSE IF field.mode = "REPEATED" THEN Return(Array(ibis_type.val))
        ELSE ibis_type

(***************************************************************************)
(* The descriptors the model imports: a leaf, or a RECORD whose children   *)
(* are leaves and at most one further RECORD, nested up to MaxDepth.       *)
(***************************************************************************)
FieldNames == <<"x", "y", "z", "w", "v">>

Modes == {"NULLABLE", "REPEATED"}

Leaves == {SchemaField("f", "INTEGER", "NULLABLE", <<>>),
           SchemaField("f", "FLOAT", "REPEATED", <<>>)}

WithNames(fs) == [i \in 1..Len(fs) |-> [fs[i] EXCEPT !.name = FieldNames[i]]]

InsertAt(s, p, x) == SubSeq(s, 1, p - 1) \o <<x>> \o SubSeq(s, p, Len(s))

RECURSIVE Records(_)
Records(d) ==
    IF d = 0 THEN {}
    ELSE LET flat == SeqsUpTo(Leaves, MaxChildren)
             nested == UNION {{InsertAt(s, p, r) : p \in 1..(Len(s) + 1)} :
                                s \in SeqsUpTo(Leaves, MaxChildren - 1),
                                r \in Records(d - 1)}
         IN {SchemaField("f", "RECORD", m, WithNames(c)) :
                m \in Modes, c \in flat \cup nested}

Fields == {[f EXCEPT !.name = "payload"] : f \in Leaves \cup Records(MaxDepth)}

RECURSIVE HasEmptyRecord(_)
HasEmptyRecord(field) ==
    /\ field.field_type = "RECORD"
    /\ \/ field.fields = <<>>
       \/ \E i \in 1..Len(field.fields) : HasEmptyRecord(field.fields[i])

CallFieldToDtype ==
    /\ op = "bigquery_field_to_ibis_dtype"
    /\ pc = "call"
    /\ pc' = "done"
    /\ ret' = bigquery_field_to_ibis_dtype(arg)
    /\ UNCHANGED <<op, arg, client, query, jobs>>

(***************************************************************************)
(* C4: a RECORD descriptor with mode REPEATED and at least one child is    *)
(* imported as Array(Struct(children)), the children being the imports of  *)
(* its child fields under their names and in their declared order; a       *)
(* RECORD without child fields, at any depth of the descriptor, makes the  *)
(* import fail.                                                            *)
(***************************************************************************)
C4_RepeatedRecordIsArrayOfStruct ==
    Called("bigquery_field_to_ibis_dtype") =>
        /\ HasEmptyRecord(arg) => ret = Raise("AssertionError")
        /\ (/\ arg.field_type = "RECORD"
            /\ arg.mode = "REPEATED"
            /\ arg.fields # <<>>
            /\ ~HasEmptyRecord(arg)) =>
                /\ ret.ok
                /\ ret.val.tag = "Array"
                /\ ret.val.value_type.tag = "Struct"
                /\ ret.val.value_type.names =
                       [i \in 1..Len(arg.fields) |-> arg.fields[i].name]
                /\ Len(ret.val.value_type.types) = Len(arg.fields)
                /\ \A i \in 1..Len(arg.fields) :
                       Return(ret.val.value_type.types[i]) =
                           bigquery_field_to_ibis_dtype(arg.fields[i])

\* a repeated RECORD of two children, the second a repeated RECORD itself,
\* was imported
C4_Witness ==
    /\ Called("bigquery_field_to_ibis_dtype")
    /\ arg.field_type = "RECORD"
    /\ arg.mode = "REPEATED"
    /\ Len(arg.fields) = 2
    /\ arg.fields[1].field_type = "INTEGER"
    /\ arg.fields[2].field_type = "RECORD"
    /\ arg.fields[2].mode = "REPEATED"
    /\ ret = Return(Array(Struct(<<"x", "y">>,
                 <<Prim("int64"), Array(Struct(<<"x">>, <<Prim("int64")>>))>>)))

\* a RECORD whose only child is a RECORD without children failed
C4_WitnessNestedEmpty ==
    /\ Called("bigquery_field_to_ibis_dtype")
    /\ arg.fields # <<>>
    /\ HasEmptyRecord(arg)
    /\ ~ret.ok

(***************************************************************************)
(* Table descriptors (bq.table.Table) and the import of their schema       *)
(* (client.py 28, 78-89).                                                  *)
(***************************************************************************)
NATIVE_PARTITION_COL == "_PARTITIONTIME"

\* table._properties.get('timePartitioning'): absent, or a dict that may
\* hold a 'field'
NoPartitioning == [set |-> FALSE, hasField |-> FALSE, field |-> ""]

DefaultPartitioning == [set |-> TRUE, hasField |-> FALSE, field |-> ""]

FieldPartitioning(f) == [set |-> TRUE, hasField |-> TRUE, field |-> f]

\* partition_info.get('field', NATIVE_PARTITION_COL)
partition_field(partition_info) ==
    IF partition_info.hasField THEN partition_info.field
    ELSE NATIVE_PARTITION_COL

bigquery_schema(table) ==
    LET cols == table.schema
        types == [i \in 1..Len(cols) |-> bigquery_field_to_ibis_dtype(cols[i])]
        fields == OrderedDict([i \in 1..Len(cols) |->
                                  <<cols[i].name, types[i].val>>])
        partition_info == table.timePartitioning
    IN  IF \E i \in 1..Len(cols) : ~types[i].ok
        THEN types[CHOOSE i \in 1..Len(cols) :
                      /\ ~types[i].ok
                      /\ \A j \in 1..(i - 1) : types[j].ok]
        ELSE IF partition_info.set
             THEN schema_from_dict(setdefault(fields,
                      partition_field(partition_info), Prim("timestamp")))
             ELSE schema_from_dict(fields)

\* the tables of the model: up to MaxCols columns, each an INTEGER, a STRING
\* or a repeated RECORD, with and without time partitioning
ColumnKinds == {SchemaField("c", "INTEGER", "NULLABLE", <<>>),
                SchemaField("c", "STRING", "NULLABLE", <<>>),
                SchemaField("c", "RECORD", "REPEATED",
                            <<SchemaField("x", "FLOAT", "NULLABLE", <<>>)>>)}

Columns == {[k EXCEPT !.name = n] : k \in ColumnKinds, n \in ColNames}

Partitionings == {NoPartitioning, DefaultPartitioning,
                  FieldPartitioning("ts"), FieldPartitioning("a")}

Tables == [schema : SeqsUpTo(Columns, MaxCols), timePartitioning : Partitionings]

CallBigquerySchema ==
    /\ op = "bigquery_schema"
    /\ pc = "call"
    /\ pc' = "done"
    /\ ret' = bigquery_schema(arg)
    /\ UNCHANGED <<op, arg, client, query, jobs>>

\* the declared columns of a table: their names, and their imported types
DeclaredNames(table) == [i \in 1..Len(table.schema) |-> table.schema[i].name]

DeclaredTypes(table) ==
    [i \in 1..Len(table.schema) |->
        bigquery_field_to_ibis_dtype(table.schema[i]).val]

(***************************************************************************)
(* C2: the import of a table whose declared columns hold the same name     *)
(* twice fails with the integrity error; no Schema is returned.            *)
(***************************************************************************)
C2_DuplicateColumnsFail ==
    (Called("bigquery_schema") /\ ~IsUnique(DeclaredNames(arg))) =>
        ret = Raise("IntegrityError")

\* what happens instead: the import of such a table returns a Schema in
\* which the repeated name occurs once
Import_DuplicateColumnsCollapse ==
    (Called("bigquery_schema") /\ ~IsUnique(DeclaredNames(arg))) =>
        /\ ret.ok
        /\ IsUnique(ret.val.names)
        /\ Range(DeclaredNames(arg)) \subseteq Range(ret.val.names)

(***************************************************************************)
(* C3: with time partitioning on the field p (the descriptor's field, or   *)
(* _PARTITIONTIME when it gives none), the imported Schema is the declared *)
(* columns in order, followed by (p, timestamp) when p is not declared and *)
(* by nothing when it is; without partitioning it is the declared columns. *)
(***************************************************************************)
C3_Expected(table) ==
    LET names == DeclaredNames(table)
        types == DeclaredTypes(table)
        p == partition_field(table.timePartitioning)
    IN  IF table.timePartitioning.set /\ p \notin Range(names)
        THEN [names |-> Append(names, p),
              types |-> Append(types, Prim("timestamp"))]
        ELSE [names |-> names, types |-> types]

C3_PartitionColumnAppendedOnce ==
    Called("bigquery_schema") => ret = Return(C3_Expected(arg))

\* the same statement of the tables whose column names are pairwise
\* distinct and that declare a column or are partitioned
Import_PartitionColumnOfValidTables ==
    (/\ Called("bigquery_schema")
     /\ IsUnique(DeclaredNames(arg))
     /\ (arg.schema # <<>> \/ arg.timePartitioning.set)) =>
        ret = Return(C3_Expected(arg))

\* a table without columns and without partitioning is not imported
Import_EmptyTableFails ==
    (/\ Called("bigquery_schema")
     /\ arg.schema = <<>>
     /\ ~arg.timePartitioning.set) =>
        ret = Raise("TypeError")

(***************************************************************************)
(* Python values given to the parameter binder, with their native type.    *)
(* A string is its sequence of tokens; a date is <<year, month, day>> and  *)
(* a datetime <<year, month, day, hour, minute>>; a list holds values and  *)
(* an (ordered) dict <<key, value>> pairs.  vt is the value's type.        *)
(***************************************************************************)
PyInt(n) == [vt |-> "int", int |-> n]

PyBool(b) == [vt |-> "bool", bool |-> b]

PyFloat(tenths) == [vt |-> "float", tenths |-> tenths]

PyStr(tokens) == [vt |-> "str", str |-> tokens]

PyDate(d) == [vt |-> "date", date |-> d]

PyDateTime(dt) == [vt |-> "datetime", datetime |-> dt]

PyList(values) == [vt |-> "list", list |-> values]

PyOrderedDict(items) == [vt |-> "OrderedDict", items |-> items]

PyDict(entries) == [vt |-> "dict", entries |-> entries]

PyNone == [vt |-> "NoneType"]

\* the classes a value of native type vt is an instance of, nearest first
\* (bool is a subclass of int, datetime of date, OrderedDict of dict)
MRO(vt) ==
    CASE vt = "bool" -> <<"bool", "int", "object">>
      [] vt = "datetime" -> <<"datetime", "date", "object">>
      [] vt = "OrderedDict" -> <<"OrderedDict", "dict", "object">>
      [] OTHER -> <<vt, "object">>

\* two digits of a date string, and their value
Pad2(n) ==
    CASE n = 0 -> "00" [] n = 1 -> "01" [] n = 2 -> "02" [] n = 5 -> "05"
      [] n = 12 -> "12" [] n = 23 -> "23" [] n = 31 -> "31" [] n = 59 -> "59"

Num2(t) ==
    CASE t = "00" -> 0 [] t = "01" -> 1 [] t = "02" -> 2 [] t = "05" -> 5
      [] t = "12" -> 12 [] t = "23" -> 23 [] t = "31" -> 31 [] t = "59" -> 59
      [] OTHER -> -1

Year4(n) == CASE n = 2019 -> "2019" [] n = 2020 -> "2020"

Num4(t) == CASE t = "2019" -> 2019 [] t = "2020" -> 2020 [] OTHER -> -1

\* str(date) and str(datetime): "2020-01-02", "2020-01-02 05:00"
DateString(d) == <<Year4(d[1]), "-", Pad2(d[2]), "-", Pad2(d[3])>>

DateTimeString(dt) ==
    DateString(dt) \o <<" ", Pad2(dt[4]), ":", Pad2(dt[5])>>

\* pd.Timestamp(value) of a string: the datetime it spells (midnight when it
\* spells a date only), or a ValueError
ParseTimestamp(tokens) ==
    LET wellFormed ==
            /\ Len(tokens) \in {5, 9}
            /\ tokens[2] = "-" /\ tokens[4] = "-"
            /\ Num4(tokens[1]) >= 0 /\ Num2(tokens[3]) >= 1 /\ Num2(tokens[5]) >= 1
            /\ Len(tokens) = 9 =>
                  /\ tokens[6] = " " /\ tokens[8] = ":"
                  /\ Num2(tokens[7]) >= 0 /\ Num2(tokens[9]) >= 0
    IN  IF ~wellFormed THEN Raise("ValueError")
        ELSE Return(<<Num4(tokens[1]), Num2(tokens[3]), Num2(tokens[5]),
                      IF Len(tokens) = 9 THEN Num2(tokens[7]) ELSE 0,
                      IF Len(tokens) = 9 THEN Num2(tokens[9]) ELSE 0>>)

\* datetime.date(): the date portion
DatePortion(dt) == <<dt[1], dt[2], dt[3]>>

\* pd.Timestamp(value, tz='UTC').to_pydatetime() of a string, a datetime or
\* a date
ToTimestampUTC(value) ==
    CASE value.vt = "str" ->
            LET parsed == ParseTimestamp(value.str)
            IN  IF parsed.ok
                THEN Return([vt |-> "datetime", datetime |-> parsed.val, tz |-> "UTC"])
                ELSE parsed
      [] value.vt = "datetime" ->
            Return([vt |-> "datetime", datetime |-> value.datetime, tz |-> "UTC"])
      [] value.vt = "date" ->
            Return([vt |-> "datetime", datetime |-> value.date \o <<0, 0>>,
                    tz |-> "UTC"])

(***************************************************************************)
(* Parameters: an expression with a name and a type.  Its class is the     *)
(* role the binder dispatches on.                                          *)
(***************************************************************************)
Param(name, type) == [name |-> name, type |-> type]

\* the scalar expression class of a type
ExprClass(type) ==
    CASE type.tag = "Struct" -> "StructScalar"
      [] type.tag = "Array" -> "ArrayScalar"
      [] type.kind = "timestamp" -> "TimestampScalar"
      [] type.kind = "string" -> "StringScalar"
      [] type.kind = "int64" -> "IntegerScalar"
      [] type.kind = "double" -> "FloatingScalar"
      [] type.kind = "boolean" -> "BooleanScalar"
      [] type.kind = "date" -> "DateScalar"
      [] type.kind = "time" -> "TimeScalar"
      [] OTHER -> "ScalarExpr"

\* the classes an expression class is a subclass of, nearest first
ExprMRO(cls) ==
    IF cls = "ArrayScalar" THEN <<"ArrayScalar", "ArrayValue", "ValueExpr">>
    ELSE <<cls, "ValueExpr">>

\* str(type), the key of _IBIS_TYPE_TO_DTYPE
TypeName(type) ==
    CASE type.tag = "prim" -> type.kind
      [] type.tag = "Array" -> "array"
      [] type.tag = "Struct" -> "struct"

IBIS_TYPE_TO_DTYPE(name) ==
    CASE name = "string" -> "STRING"
      [] name = "int64" -> "INT64"
      [] name = "double" -> "FLOAT64"
      [] name = "boolean" -> "BOOL"
      [] name = "timestamp" -> "TIMESTAMP"
      [] name = "date" -> "DATE"
      [] OTHER -> "KeyError"

\* param[k] of a struct parameter: the sub-parameter of field k
StructField(param, k) ==
    LET i == CHOOSE i \in 1..Len(param.type.names) : param.type.names[i] = k
    IN  Param(k, param.type.types[i])

(***************************************************************************)
(* Bound parameters (bq.ScalarQueryParameter, ArrayQueryParameter,         *)
(* StructQueryParameter) and the outcome of a binding: the bound parameter *)
(* or the exception, with the rules that were dispatched to on the way.    *)
(***************************************************************************)
ScalarQueryParameter(name, type_, value) ==
    [kind |-> "Scalar", name |-> name, type_ |-> type_, value |-> value]

ArrayQueryParameter(name, array_type, values) ==
    [kind |-> "Array", name |-> name, array_type |-> array_type, values |-> values]

StructQueryParameter(name, sub_params) ==
    [kind |-> "Struct", name |-> name, sub_params |-> sub_params]

Bound(b) == [ok |-> TRUE, val |-> b, calls |-> <<>>]

Failed(e) == [ok |-> FALSE, err |-> e, calls |-> <<>>]

Via(fn, outcome) == [outcome EXCEPT !.calls = <<fn>> \o @]

(***************************************************************************)
(* The binding rules (client.py 172-239) and their dispatch.               *)
(***************************************************************************)
\* a mutant of the registry: the string rule is registered for every
\* expression class
Registry_string_rule_for_any_role ==
    {<<"StructScalar", "OrderedDict", "bq_param_struct">>,
     <<"ArrayValue", "list", "bq_param_array">>,
     <<"TimestampScalar", "str", "bq_param_timestamp">>,
     <<"TimestampScalar", "datetime", "bq_param_timestamp">>,
     <<"TimestampScalar", "date", "bq_param_timestamp">>,
     <<"ValueExpr", "str", "bq_param_string">>,
     <<"IntegerScalar", "int", "bq_param_integer">>,
     <<"FloatingScalar", "float", "bq_param_double">>,
     <<"BooleanScalar", "bool", "bq_param_boolean">>,
     <<"DateScalar", "str", "bq_param_date_string">>,
     <<"DateScalar", "datetime", "bq_param_date_datetime">>,
     <<"DateScalar", "date", "bq_param_date">>}

\* the signatures registered with the bigquery_param dispatcher
Registry ==
    {<<"StructScalar", "OrderedDict", "bq_param_struct">>,
     <<"ArrayValue", "list", "bq_param_array">>,
     <<"TimestampScalar", "str", "bq_param_timestamp">>,
     <<"TimestampScalar", "datetime", "bq_param_timestamp">>,
     <<"TimestampScalar", "date", "bq_param_timestamp">>,
     <<"StringScalar", "str", "bq_param_string">>,
     <<"IntegerScalar", "int", "bq_param_integer">>,
     <<"FloatingScalar", "float", "bq_param_double">>,
     <<"BooleanScalar", "bool", "bq_param_boolean">>,
     <<"DateScalar", "str", "bq_param_date_string">>,
     <<"DateScalar", "datetime", "bq_param_date_datetime">>,
     <<"DateScalar", "date", "bq_param_date">>}

Position(seq, x) == CHOOSE i \in 1..Len(seq) : seq[i] = x

\* the implementation the dispatcher finds for (class of param, type of
\* value): of the signatures both are instances of, the most specific; or
\* "NotImplementedError"
Dispatch(cls, vt) ==
    LET matching == {r \in Registry : /\ r[1] \in Range(ExprMRO(cls))
                                      /\ r[2] \in Range(MRO(vt))}
    IN  IF matching = {} THEN "NotImplementedError"
        ELSE (CHOOSE r \in matching :
                \A q \in matching :
                    /\ Position(ExprMRO(cls), r[1]) <= Position(ExprMRO(cls), q[1])
                    /\ Position(MRO(vt), r[2]) <= Position(MRO(vt), q[2]))[3]

RECURSIVE bigquery_param(_, _)

\* a mutant of the struct rule: the children are bound in the order of the
\* struct type's fields
bq_param_struct_in_declared_order(param, value) ==
    LET items == value.items
        names == param.type.names
        present == {i \in 1..Len(names) : names[i] \in Keys(items)}
        RECURSIVE ordered(_)
        ordered(i) ==
            IF i > Len(names) THEN <<>>
            ELSE (IF i \in present
                  THEN <<items[CHOOSE j \in 1..Len(items) : items[j][1] = names[i]]>>
                  ELSE <<>>) \o ordered(i + 1)
        sorted == ordered(1)
        kids == [i \in 1..Len(sorted) |->
                    bigquery_param(StructField(param, sorted[i][1]), sorted[i][2])]
    IN  IF \E i \in 1..Len(items) : items[i][1] \notin Range(names)
        THEN Failed("KeyError")
        ELSE IF \E i \in 1..Len(sorted) : ~kids[i].ok
        THEN Failed(kids[CHOOSE i \in 1..Len(sorted) : ~kids[i].ok].err)
        ELSE Bound(StructQueryParameter(param.name,
                        [i \in 1..Len(sorted) |-> kids[i].val]))

bq_param_struct(param, value) ==
    LET items == value.items
        kids == [i \in 1..Len(items) |->
                    IF items[i][1] \in Range(param.type.names)
                    THEN bigquery_param(StructField(param, items[i][1]), items[i][2])
                    ELSE Failed("KeyError")]
    IN  IF \E i \in 1..Len(items) : ~kids[i].ok
        THEN Failed(kids[CHOOSE i \in 1..Len(items) :
                            /\ ~kids[i].ok
                            /\ \A j \in 1..(i - 1) : kids[j].ok].err)
        ELSE Bound(StructQueryParameter(param.name,
                        [i \in 1..Len(items) |-> kids[i].val]))

bq_param_array(param, value) ==
    LET bigquery_type == IBIS_TYPE_TO_DTYPE(TypeName(param.type.value_type))
    IN  IF bigquery_type = "KeyError" THEN Failed("UnsupportedBackendType")
        ELSE Bound(ArrayQueryParameter(param.name, bigquery_type, value.list))

bq_param_timestamp(param, value) ==
    LET timestamp_value == ToTimestampUTC(value)
    IN  IF ~timestamp_value.ok THEN Failed(timestamp_value.err)
        ELSE Bound(ScalarQueryParameter(param.name, "TIMESTAMP", timestamp_value.val))

bq_param_string(param, value) ==
    Bound(ScalarQueryParameter(param.name, "STRING", value))

bq_param_integer(param, value) ==
    Bound(ScalarQueryParameter(param.name, "INT64", value))

bq_param_double(param, value) ==
    Bound(ScalarQueryParameter(param.name, "FLOAT64", value))

bq_param_boolean(param, value) ==
    Bound(ScalarQueryParameter(param.name, "BOOL", value))

bq_param_date_string(param, value) ==
    LET parsed == ParseTimestamp(value.str)
    IN  IF ~parsed.ok THEN Failed(parsed.err)
        ELSE bigquery_param(param, PyDate(DatePortion(parsed.val)))

\* a mutant of the datetime rule: the datetime is bound as it is
bq_param_date_datetime_unconverted(param, value) ==
    Bound(ScalarQueryParameter(param.name, "DATE", value))

bq_param_date_datetime(param, value) ==
    bigquery_param(param, PyDate(DatePortion(value.datetime)))

bq_param_date(param, value) ==
    Bound(ScalarQueryParameter(param.name, "DATE", value))

bigquery_param(param, value) ==
    LET fn == Dispatch(ExprClass(param.type), value.vt)
    IN  CASE fn = "NotImplementedError" -> Failed("NotImplementedError")
          [] fn = "bq_param_struct" -> Via(fn, bq_param_struct(param, value))
          [] fn = "bq_param_array" -> Via(fn, bq_param_array(param, value))
          [] fn = "bq_param_timestamp" -> Via(fn, bq_param_timestamp(param, value))
          [] fn = "bq_param_string" -> Via(fn, bq_param_string(param, value))
          [] fn = "bq_param_integer" -> Via(fn, bq_param_integer(param, value))
          [] fn = "bq_param_double" -> Via(fn, bq_param_double(param, value))
          [] fn = "bq_param_boolean" -> Via(fn, bq_param_boolean(param, value))
          [] fn = "bq_param_date_string" -> Via(fn, bq_param_date_string(param, value))
          [] fn = "bq_param_date_datetime" -> Via(fn, bq_param_date_datetime(param, value))
          [] fn = "bq_param_date" -> Via(fn, bq_param_date(param, value))

(***************************************************************************)
(* The parameters and values the model binds.                              *)
(***************************************************************************)
Dates == {d \in {2019, 2020} \X {1, 2, 12} \X {1, 2, 31} : d[2] # 2 \/ d[3] # 31}

Times == {<<0, 0>>, <<5, 0>>, <<23, 59>>}

DateTimes == {d \o t : d \in Dates, t \in Times}

FieldKeys == <<"a", "b", "c", "d", "e">>

FieldTypes == <<Prim("int64"), Prim("string"), Prim("int64"), Prim("string"),
                Prim("int64")>>

\* the struct type of MaxFields fields, and a struct of a struct
StructType == Struct(SubSeq(FieldKeys, 1, MaxFields), SubSeq(FieldTypes, 1, MaxFields))

PairType == Struct(<<"a", "b">>, <<Prim("int64"), Prim("string")>>)

NestedType == Struct(<<"s", "n">>, <<PairType, Prim("int64")>>)

ParamTypes ==
    {StructType, NestedType, Array(Prim("int64")), Array(Prim("time")),
     Array(Array(Prim("int64"))), Prim("timestamp"), Prim("string"),
     Prim("int64"), Prim("double"), Prim("boolean"), Prim("date"), Prim("time")}

Params == {Param("p", t) : t \in ParamTypes}

ScalarValues ==
    {PyInt(0), PyInt(1), PyBool(TRUE), PyBool(FALSE), PyFloat(15),
     PyStr(<<"x">>), PyStr(<<"foobar">>), PyNone}
    \cup {PyDate(d) : d \in Dates}
    \cup {PyDateTime(dt) : dt \in DateTimes}
    \cup {PyStr(DateString(d)) : d \in Dates}
    \cup {PyStr(DateTimeString(dt)) : dt \in DateTimes}

ListValues ==
    {PyList(<<>>), PyList(<<PyInt(1), PyInt(0)>>), PyList(<<PyStr(<<"x">>)>>)}

\* the ordered mappings over the fields of StructType: every order of every
\* choice of keys, each key with a whole number or a text
MappingItems ==
    {m \in SeqsUpTo(Range(SubSeq(FieldKeys, 1, MaxFields))
                        \X {PyInt(1), PyStr(<<"x">>)}, MaxFields) :
        IsUnique(Firsts(m))}

PairMappings ==
    {PyOrderedDict(<<<<"a", PyInt(1)>>, <<"b", PyStr(<<"x">>)>>>>),
     PyOrderedDict(<<<<"b", PyStr(<<"x">>)>>, <<"a", PyInt(1)>>>>)}

MappingValues ==
    {PyOrderedDict(m) : m \in MappingItems}
    \cup {PyOrderedDict(<<<<"s", pm>>, <<"n", PyInt(1)>>>>) : pm \in PairMappings}
    \cup {PyOrderedDict(<<<<"n", PyInt(1)>>, <<"s", pm>>>>) : pm \in PairMappings}
    \cup {PyOrderedDict(<<<<"zz", PyInt(1)>>>>),
          PyDict(<<<<"a", PyInt(1)>>, <<"b", PyStr(<<"x">>)>>>>)}

Values == ScalarValues \cup ListValues \cup MappingValues

CallBigqueryParam ==
    /\ op = "bigquery_param"
    /\ pc = "call"
    /\ pc' = "done"
    /\ ret' = bigquery_param(arg.param, arg.value)
    /\ UNCHANGED <<op, arg, client, query, jobs>>

(***************************************************************************)
(* C5: binding a struct parameter to an ordered mapping gives a composite  *)
(* bound parameter whose children are in the order of the struct type's    *)
(* fields, whatever the order of the mapping.                              *)
(***************************************************************************)
IsStructBinding ==
    /\ Called("bigquery_param")
    /\ arg.param.type.tag = "Struct"
    /\ arg.value.vt = "OrderedDict"

ChildNames(bound) == [i \in 1..Len(bound.sub_params) |-> bound.sub_params[i].name]

C5_ChildrenInDeclaredOrder ==
    (IsStructBinding /\ ret.ok) =>
        /\ ret.val.kind = "Struct"
        /\ \A i, j \in 1..Len(ret.val.sub_params) :
              i < j => Position(arg.param.type.names, ChildNames(ret.val)[i])
                          < Position(arg.param.type.names, ChildNames(ret.val)[j])

\* C5 as amended: the children are in the order in which the mapping
\* iterates, one per item, each the binding of the sub-parameter of the
\* item's key to the item's value
C5_ChildrenInMappingOrder ==
    (IsStructBinding /\ ret.ok) =>
        /\ ret.val.kind = "Struct"
        /\ ret.val.name = arg.param.name
        /\ ChildNames(ret.val) = Firsts(arg.value.items)
        /\ \A i \in 1..Len(arg.value.items) :
              LET child == bigquery_param(
                               StructField(arg.param, arg.value.items[i][1]),
                               arg.value.items[i][2])
              IN  child.ok /\ child.val = ret.val.sub_params[i]

\* the mapping {b: "x", a: 1} was bound to a Struct(a, b, ...) parameter
C5_Witness ==
    /\ IsStructBinding
    /\ arg.param.type.names[1] = "a"
    /\ arg.param.type.names[2] = "b"
    /\ Firsts(arg.value.items) = <<"b", "a">>
    /\ ret.ok
    /\ ChildNames(ret.val) = <<"b", "a">>
    /\ ret.val.sub_params[1].type_ = "STRING"
    /\ ret.val.sub_params[2].type_ = "INT64"

(***************************************************************************)
(* C6: a (declared role, native value type) pair that no binding rule      *)
(* covers fails with the dispatcher's no-matching-binding error and binds  *)
(* nothing, at the top and in the fields of a struct; and whatever is      *)
(* bound carries the wire tag of its parameter's role.                     *)
(***************************************************************************)
\* the rule table: a bool is a whole number of Python, as a datetime is a date
RuleCovers(type, vt) ==
    CASE type.tag = "Struct" -> vt = "OrderedDict"
      [] type.tag = "Array" -> vt = "list"
      [] type.tag = "prim" /\ type.kind = "timestamp" -> vt \in {"str", "datetime", "date"}
      [] type.tag = "prim" /\ type.kind = "string" -> vt = "str"
      [] type.tag = "prim" /\ type.kind = "int64" -> vt \in {"int", "bool"}
      [] type.tag = "prim" /\ type.kind = "double" -> vt = "float"
      [] type.tag = "prim" /\ type.kind = "boolean" -> vt = "bool"
      [] type.tag = "prim" /\ type.kind = "date" -> vt \in {"str", "datetime", "date"}
      [] OTHER -> FALSE

\* the wire tag of a role
RoleTag(type) ==
    CASE type.tag = "prim" /\ type.kind = "timestamp" -> "TIMESTAMP"
      [] type.tag = "prim" /\ type.kind = "string" -> "STRING"
      [] type.tag = "prim" /\ type.kind = "int64" -> "INT64"
      [] type.tag = "prim" /\ type.kind = "double" -> "FLOAT64"
      [] type.tag = "prim" /\ type.kind = "boolean" -> "BOOL"
      [] type.tag = "prim" /\ type.kind = "date" -> "DATE"
      [] OTHER -> "none"

\* some item of a struct's mapping, at any depth, is a pair no rule covers
RECURSIVE HasUncoveredPair(_, _)
HasUncoveredPair(type, value) ==
    \/ ~RuleCovers(type, value.vt)
    \/ /\ type.tag = "Struct"
       /\ \E i \in 1..Len(value.items) :
             /\ value.items[i][1] \in Range(type.names)
             /\ HasUncoveredPair(type.types[Position(type.names, value.items[i][1])],
                                 value.items[i][2])

RECURSIVE WellTagged(_, _)
WellTagged(type, bound) ==
    CASE bound.kind = "Scalar" -> bound.type_ = RoleTag(type)
      [] bound.kind = "Array" ->
            type.tag = "Array" /\ bound.array_type = RoleTag(type.value_type)
      [] bound.kind = "Struct" ->
            /\ type.tag = "Struct"
            /\ \A i \in 1..Len(bound.sub_params) :
                  /\ bound.sub_params[i].name \in Range(type.names)
                  /\ WellTagged(type.types[Position(type.names,
                                                    bound.sub_params[i].name)],
                                bound.sub_params[i])

C7_DateBindingsAgree ==
    (Called("bigquery_param") /\ arg.param.type = Prim("date")) =>
        \A d \in Dates :
            (\/ arg.value = PyDate(d)
             \/ arg.value = PyStr(DateString(d))
             \/ \E t \in Times : arg.value = PyDateTime(d \o t)) =>
                /\ ret.ok
                /\ ret.val = ScalarQueryParameter(arg.param.name, "DATE", PyDate(d))
                /\ ret.calls \in {<<"bq_param_date">>,
                                  <<"bq_param_date_string", "bq_param_date">>,
                                  <<"bq_param_date_datetime", "bq_param_date">>}

\* the datetime 2020-01-02 05:00 was bound to a date parameter
C7_Witness ==
    /\ Called("bigquery_param")
    /\ arg.param.type = Prim("date")
    /\ arg.value = PyDateTime(<<2020, 1, 2, 5, 0>>)
    /\ ret.val = ScalarQueryParameter("p", "DATE", PyDate(<<2020, 1, 2>>))
    /\ ret.calls = <<"bq_param_date_datetime", "bq_param_date">>

\* so was the string "2020-01-02"
C7_WitnessString ==
    /\ Called("bigquery_param")
    /\ arg.param.type = Prim("date")
    /\ arg.value = PyStr(<<"2020", "-", "01", "-", "02">>)
    /\ ret.val = ScalarQueryParameter("p", "DATE", PyDate(<<2020, 1, 2>>))
    /\ ret.calls = <<"bq_param_date_string", "bq_param_date">>

(***************************************************************************)
(* Schema inference from a pandas DataFrame (schema.py 182-270).           *)
(*                                                                         *)
(* A series is its numpy dtype and its cells; a missing cell (None or NaN) *)
(* is PyNone.  A DataFrame is the sequence of its (label, series) columns, *)
(* in column order; pandas allows a label to occur twice.                  *)
(***************************************************************************)
MaxRows == 3

\* a value of a class for which dt.infer has no rule
PyObject == [vt |-> "object"]

Series(dtype_, values) == [dtype |-> dtype_, values |-> values]

dropna(values) == SelectSeq(values, LAMBDA c : c.vt # "NoneType")

\* pd.api.types.infer_dtype on the non-null cells of an object series
infer_pandas_dtype(values) ==
    LET kinds == {values[i].vt : i \in DOMAIN values} IN
    IF values = <<>> THEN "empty"
    ELSE IF kinds = {"str"} THEN "string"
    ELSE IF kinds = {"bool"} THEN "boolean"
    ELSE IF kinds = {"int"} THEN "integer"
    ELSE IF kinds = {"float"} THEN "floating"
    ELSE IF kinds = {"int", "float"} THEN "mixed-integer-float"
    ELSE IF "int" \in kinds THEN "mixed-integer"
    ELSE "mixed"

startswith_mixed(pandas_dtype) ==
    pandas_dtype \in {"mixed", "mixed-integer", "mixed-integer-float"}

\* what dict.get returns for a key without an entry
None == [tag |-> "None"]

\* PANDAS_DTYPE_TO_IBIS_DTYPE.get(pandas_dtype)
PANDAS_DTYPE_TO_IBIS_DTYPE(pandas_dtype) ==
    CASE pandas_dtype \in {"string", "unicode"} -> Prim("string")
      [] pandas_dtype = "empty" -> Prim("null")
      [] pandas_dtype = "boolean" -> Prim("boolean")
      [] pandas_dtype \in {"datetime", "datetime64"} -> Prim("timestamp")
      [] pandas_dtype = "timedelta" -> Prim("interval")
      [] pandas_dtype = "bytes" -> Prim("binary")
      [] OTHER -> None

\* dt.infer(value): the type of one value, or the type-inference error
infer(value) ==
    CASE value.vt = "int" -> Return(Prim("int64"))
      [] value.vt = "float" -> Return(Prim("double"))
      [] value.vt = "str" -> Return(Prim("string"))
      [] value.vt = "bool" -> Return(Prim("boolean"))
      [] OTHER -> Raise("IbisTypeError")

\* dt.highest_precedence(dtypes): the type every given type casts up to
highest_precedence(dtypes) ==
    IF Cardinality(dtypes) = 1 THEN Return(CHOOSE t \in dtypes : TRUE)
    ELSE IF dtypes = {Prim("int64"), Prim("double")}
    THEN Return(Prim("double"))
    ELSE Raise("IbisTypeError")

\* dt.dtype(series.dtype): the type of a numpy dtype
numpy_dtype(dtype_) ==
    CASE dtype_ = "int64" -> Prim("int64")
      [] dtype_ = "float64" -> Prim("double")
      [] dtype_ = "bool" -> Prim("boolean")
      [] dtype_ = "datetime64[ns]" -> Prim("timestamp")

\* the try block of the strict helper: any type-inference error leaves the
\* list of candidates empty
infer_ibis_dtypes_from_series_strict(series_nona) ==
    LET inferred == [i \in DOMAIN series_nona |-> infer(series_nona[i])] IN
    IF \E i \in DOMAIN inferred : ~inferred[i].ok THEN <<>>
    ELSE LET highest ==
                 highest_precedence({inferred[i].val : i \in DOMAIN inferred})
         IN  IF highest.ok THEN <<highest.val>> ELSE <<>>

\* as infer_ibis_dtypes_from_series, with the strict flag ignored for a
\* mixed column
infer_ibis_dtypes_from_series_never_strict(series, strict, aggressive_null) ==
    LET dropped == IF aggressive_null THEN dropna(series.values)
                   ELSE series.values
        series_nona == dropna(dropped)
        pandas_dtype == infer_pandas_dtype(series_nona)
    IN  IF aggressive_null /\ Len(dropped) = 0 THEN Return(<<Prim("null")>>)
        ELSE IF series.dtype # "object"
        THEN Return(<<numpy_dtype(series.dtype)>>)
        ELSE IF startswith_mixed(pandas_dtype)
        THEN LET first == infer(series_nona[1]) IN
             IF first.ok THEN Return(<<first.val>>) ELSE first
        ELSE IF PANDAS_DTYPE_TO_IBIS_DTYPE(pandas_dtype) = None
        THEN Return(<<>>)
        ELSE Return(<<PANDAS_DTYPE_TO_IBIS_DTYPE(pandas_dtype)>>)

\* the list of candidate types of one column, or the error that escapes
infer_ibis_dtypes_from_series(series, strict, aggressive_null) ==
    LET dropped == IF aggressive_null THEN dropna(series.values)
                   ELSE series.values
        series_nona == dropna(dropped)
        pandas_dtype == infer_pandas_dtype(series_nona)
    IN  IF aggressive_null /\ Len(dropped) = 0 THEN Return(<<Prim("null")>>)
        ELSE IF series.dtype # "object"
        THEN Return(<<numpy_dtype(series.dtype)>>)
        ELSE IF startswith_mixed(pandas_dtype)
        THEN IF strict
             THEN Return(infer_ibis_dtypes_from_series_strict(series_nona))
             ELSE LET first == infer(series_nona[1]) IN
                  IF first.ok THEN Return(<<first.val>>) ELSE first
        ELSE IF PANDAS_DTYPE_TO_IBIS_DTYPE(pandas_dtype) = None
        THEN Return(<<>>)
        ELSE Return(<<PANDAS_DTYPE_TO_IBIS_DTYPE(pandas_dtype)>>)

\* the indexes of a sequence that satisfy Test, in order
Where(s, Test(_)) ==
    SelectSeq([i \in DOMAIN s |-> i], Test)

\* the combined failure: TypeError(msg), msg listing none_cols and multi_cols
CombinedTypeError(none_cols, multi_cols) ==
    [ok |-> FALSE, err |-> "TypeError",
     none_cols |-> none_cols, multi_cols |-> multi_cols]

\* infer_pandas_schema: the columns are classified in column order; an error
\* raised while classifying a column escapes the comprehension at once
infer_pandas_schema(df, strict, aggressive_null) ==
    LET dtypes == [i \in DOMAIN df |->
                     infer_ibis_dtypes_from_series(df[i][2], strict,
                                                   aggressive_null)]
        escaped == Where(df, LAMBDA i : ~dtypes[i].ok)
        none == Where(df, LAMBDA i : Len(dtypes[i].val) = 0)
        multi == Where(df, LAMBDA i : Len(dtypes[i].val) > 1)
        single == Where(df, LAMBDA i : Len(dtypes[i].val) = 1)
    IN  IF escaped # <<>> THEN dtypes[escaped[1]]
        ELSE IF none # <<>> \/ multi # <<>>
        THEN CombinedTypeError(
                 [k \in DOMAIN none |-> df[none[k]][1]],
                 [k \in DOMAIN multi |->
                    <<df[multi[k]][1], dtypes[multi[k]].val>>])
        ELSE from_tuples([k \in DOMAIN single |->
                            <<df[single[k]][1], dtypes[single[k]].val[1]>>])

(***************************************************************************)
(* The inputs of the inference calls.                                      *)
(***************************************************************************)
Cells == {PyNone, PyInt(1), PyFloat(15), PyStr(<<"x">>), PyObject}

\* every object series of at most MaxRows cells, and two numeric ones
SeriesInputs ==
    {Series("object", v) : v \in SeqsUpTo(Cells, MaxRows)}
        \cup {Series("int64", <<PyInt(1)>>),
              Series("float64", <<PyFloat(15), PyNone>>),
              Series("float64", <<PyNone>>)}

\* the columns of the DataFrames: one series of each outcome of the
\* classification
ColumnSamples ==
    {Series("object", <<PyStr(<<"x">>)>>),
     Series("int64", <<PyInt(1)>>),
     Series("object", <<PyNone>>),
     Series("object", <<PyInt(1)>>),
     Series("object", <<PyInt(1), PyStr(<<"x">>)>>),
     Series("object", <<PyNone, PyStr(<<"x">>), PyFloat(15)>>),
     Series("object", <<PyInt(1), PyFloat(15)>>),
     Series("object", <<PyObject, PyInt(1)>>)}

Labels == {"c1", "c2"}

DataFrames == SeqsUpTo(Labels \X ColumnSamples, MaxCols)

InferSeriesCalls ==
    [series : SeriesInputs, strict : BOOLEAN, aggressive_null : BOOLEAN]

InferSchemaCalls ==
    [df : DataFrames, strict : BOOLEAN, aggressive_null : BOOLEAN]

CallInferSeries ==
    /\ op = "infer_ibis_dtypes_from_series"
    /\ pc = "call"
    /\ pc' = "done"
    /\ ret' = infer_ibis_dtypes_from_series(arg.series, arg.strict,
                                            arg.aggressive_null)
    /\ UNCHANGED <<op, arg, client, query, jobs>>

CallInferSchema ==
    /\ op = "infer_pandas_schema"
    /\ pc = "call"
    /\ pc' = "done"
    /\ ret' = infer_pandas_schema(arg.df, arg.strict, arg.aggressive_null)
    /\ UNCHANGED <<op, arg, client, query, jobs>>

(***************************************************************************)
(* Claims about schema inference.                                          *)
(***************************************************************************)
DfLabels == [i \in DOMAIN arg.df |-> arg.df[i][1]]

\* the classification of column i of the DataFrame of the call
Candidates(i) ==
    infer_ibis_dtypes_from_series(arg.df[i][2], arg.strict,
                                  arg.aggressive_null)

HasCandidates(i, Count(_)) == Candidates(i).ok /\ Count(Len(Candidates(i).val))

\* C8: infer_pandas_schema classifies every column before failing: it
\* returns a Schema with the columns in order exactly when every column has
\* exactly one candidate type, and otherwise raises one combined TypeError
\* that names every column with zero candidates and every column with two
\* or more, never only the first bad column.
C8_ClassifiesEveryColumn ==
    Called("infer_pandas_schema") =>
        IF \A i \in DOMAIN arg.df : HasCandidates(i, LAMBDA n : n = 1)
        THEN /\ ret.ok
             /\ ret.val.names = DfLabels
             /\ ret.val.types = [i \in DOMAIN arg.df |-> Candidates(i).val[1]]
        ELSE /\ ~ret.ok
             /\ ret.err = "TypeError"
             /\ ret.none_cols =
                    [k \in DOMAIN Where(arg.df, LAMBDA i :
                                          ~HasCandidates(i, LAMBDA n : n > 0))
                       |-> DfLabels[Where(arg.df, LAMBDA i :
                              ~HasCandidates(i, LAMBDA n : n > 0))[k]]]
             /\ Firsts(ret.multi_cols) =
                    [k \in DOMAIN Where(arg.df, LAMBDA i :
                                          HasCandidates(i, LAMBDA n : n > 1))
                       |-> DfLabels[Where(arg.df, LAMBDA i :
                              HasCandidates(i, LAMBDA n : n > 1))[k]]]

\* When no classification raises and the labels are distinct, the result is
\* as C8 says: the Schema, or one TypeError naming every column without a
\* single candidate.
Infer_CombinedFailureWhenClassified ==
    (/\ Called("infer_pandas_schema")
     /\ \A i \in DOMAIN arg.df : Candidates(i).ok
     /\ IsUnique(DfLabels))
        => C8_ClassifiesEveryColumn

\* A strict call never lets a type-inference error escape a column.
Infer_StrictNeverEscapes ==
    (Called("infer_pandas_schema") /\ arg.strict)
        => \A i \in DOMAIN arg.df : Candidates(i).ok

\* A non-strict call stops at the first mixed column whose first non-null
\* value has no type, with that value's error and no list of columns.
Infer_NonStrictFailsAtFirstUntypedValue ==
    (/\ Called("infer_pandas_schema")
     /\ \E i \in DOMAIN arg.df : ~Candidates(i).ok)
        => ret = Raise("IbisTypeError")

\* A DataFrame with a repeated label and one candidate per column gets the
\* IntegrityError of Schema.
Infer_RepeatedLabelIsIntegrityError ==
    (/\ Called("infer_pandas_schema")
     /\ \A i \in DOMAIN arg.df : HasCandidates(i, LAMBDA n : n = 1)
     /\ ~IsUnique(DfLabels))
        => ret = Raise("IntegrityError")

\* no column of the model gets two or more candidates: every return of
\* infer_ibis_dtypes_from_series is a list of at most one type
Infer_AtMostOneCandidate ==
    (Called("infer_ibis_dtypes_from_series") /\ ret.ok) => Len(ret.val) <= 1

\* the non-null values are of kinds with no common type
Incompatible(values) ==
    \E i, j \in DOMAIN dropna(values) :
        LET a == dropna(values)[i].vt
            b == dropna(values)[j].vt
        IN  a # b /\ {a, b} # {"int", "float"}

IsMixedColumn(series) ==
    series.dtype = "object" /\ Incompatible(series.values)

FirstNonNull(series) == dropna(series.values)[1]

C9_WitnessNonStrict ==
    /\ Called("infer_pandas_schema")
    /\ ~arg.strict
    /\ \E i \in DOMAIN arg.df :
           /\ IsMixedColumn(arg.df[i][2])
           /\ arg.df[i][2].values[1] = PyNone
    /\ ret.ok

\* a non-strict call on a mixed series that starts with nulls and ends
\* with a value of another kind
C9_WitnessSeries ==
    /\ Called("infer_ibis_dtypes_from_series")
    /\ ~arg.strict
    /\ IsMixedColumn(arg.series)
    /\ arg.series.values[1] = PyNone
    /\ ret = Return(<<Prim("string")>>)

(***************************************************************************)
(* The client and its queries (client.py 138-165, 269-313, 316-390).       *)
(*                                                                         *)
(* client is the BigQueryClient, query the BigQueryQuery most recently     *)
(* constructed (id counts the constructions), jobs the calls of            *)
(* client.query made on the remote service, in order.  A call of           *)
(* _execute_query is at one of the positions "bind" (inside the            *)
(* constructor of the query, binding the next parameter), "execute"        *)
(* (before client.query), "result" (blocked in query.result()) and "fetch" *)
(* (reshaping the result); "idle" is the client between two calls.         *)
(***************************************************************************)
MaxQueries == 2

\* the values of client, query and jobs where no client is modelled
NoClient == [constructed |-> FALSE]

NoQuery == [id |-> 0, query_parameters |-> <<>>]

NoFacade == client = NoClient /\ query = NoQuery /\ jobs = <<>>

\* parse_project_and_dataset; a string is the sequence of its parts between
\* dots, and the split fits the two targets only when there are two parts
parse_project_and_dataset(project, dataset) ==
    IF Len(dataset) = 2
    THEN [data_project |-> <<dataset[1]>>, billing_project |-> project,
          dataset |-> <<dataset[2]>>]
    ELSE [data_project |-> project, billing_project |-> project,
          dataset |-> dataset]

\* BigQueryClient.__init__
BigQueryClient(project_id, dataset_id) ==
    parse_project_and_dataset(project_id, dataset_id)

\* the most parts between dots of a dataset name of the model
MaxParts == 4

\* set_database(None) and set_database(''): no name
NoName == <<>>

\* as self_parse_project_and_dataset, with the data project of the client
\* in the place of its billing project
self_parse_project_and_dataset_from_data_project(self, dataset) ==
    LET parsed ==
            parse_project_and_dataset(
                self.data_project,
                IF dataset # NoName THEN dataset
                ELSE self.data_project \o self.dataset)
    IN  <<parsed.data_project, parsed.dataset>>

\* BigQueryClient._parse_project_and_dataset; '{}.{}'.format(a, b) has the
\* parts of a followed by the parts of b
self_parse_project_and_dataset(self, dataset) ==
    LET parsed ==
            parse_project_and_dataset(
                self.billing_project,
                IF dataset # NoName THEN dataset
                ELSE self.data_project \o self.dataset)
    IN  <<parsed.data_project, parsed.dataset>>

\* BigQueryClient.set_database
set_database(name) ==
    /\ client' =
           [client EXCEPT
              !.data_project = self_parse_project_and_dataset(client, name)[1],
              !.dataset = self_parse_project_and_dataset(client, name)[2]]
    /\ op' = "set_database"
    /\ arg' = [name |-> name]
    /\ ret' = Return(None)

\* a compiled statement: its text, the placeholders found in its expression
\* (named), and the values supplied for placeholders (dml.context.params),
\* in the order of the dict
Dml(stmt, placeholders, params) ==
    [stmt |-> stmt, placeholders |-> placeholders, params |-> params]

\* the error of the remote service
RemoteError == "GoogleAPIError"

\* as execute_query, with the test of the async flag after the construction
\* of the query
execute_query_async_tested_late(dml, async) ==
    /\ op' = "_execute_query"
    /\ arg' = [dml |-> dml, async |-> async]
    /\ query' = [id |-> query.id + 1, query_parameters |-> <<>>]
    /\ IF async
       THEN /\ ret' = Raise("NotImplementedError")
            /\ pc' = "idle"
       ELSE /\ ret' = NoCall
            /\ pc' = IF dml.params = <<>> THEN "execute" ELSE "bind"
    /\ UNCHANGED <<client, jobs>>

\* _execute_query up to the first parameter of the new query: the async
\* flag is tested first; otherwise the query is constructed
execute_query(dml, async) ==
    /\ op' = "_execute_query"
    /\ arg' = [dml |-> dml, async |-> async]
    /\ IF async
       THEN /\ ret' = Raise("NotImplementedError")
            /\ pc' = "idle"
            /\ UNCHANGED <<client, query, jobs>>
       ELSE /\ query' = [id |-> query.id + 1, query_parameters |-> <<>>]
            /\ ret' = NoCall
            /\ pc' = IF dml.params = <<>> THEN "execute" ELSE "bind"
            /\ UNCHANGED <<client, jobs>>

\* the next item of the list comprehension of BigQueryQuery.__init__: the
\* name of the placeholder is looked up, then the value is bound; an error
\* leaves the constructor and _execute_query
bind_parameter(param, value) ==
    IF param \notin arg.dml.placeholders
    THEN /\ ret' = Raise("KeyError")
         /\ pc' = "idle"
         /\ UNCHANGED query
    ELSE IF ~bigquery_param(param, value).ok
    THEN /\ ret' = Raise(bigquery_param(param, value).err)
         /\ pc' = "idle"
         /\ UNCHANGED query
    ELSE /\ query' =
               [query EXCEPT !.query_parameters =
                                 Append(@, bigquery_param(param, value).val)]
         /\ pc' = IF Len(query.query_parameters) + 1 = Len(arg.dml.params)
                  THEN "execute" ELSE "bind"
         /\ UNCHANGED ret

\* the call of client.query made by _execute
Job(stmt, query_parameters, project) ==
    [stmt |-> stmt, query_parameters |-> query_parameters,
     use_legacy_sql |-> FALSE, project |-> project]

\* as execute, with the statement submitted a second time when the service
\* has refused it
execute_retrying(accepted) ==
    /\ jobs' = IF accepted
               THEN Append(jobs, Job(arg.dml.stmt, query.query_parameters,
                                     client.billing_project))
               ELSE Append(Append(jobs,
                                  Job(arg.dml.stmt, query.query_parameters,
                                      client.billing_project)),
                           Job(arg.dml.stmt, query.query_parameters,
                               client.billing_project))
    /\ IF accepted
       THEN pc' = "result" /\ UNCHANGED ret
       ELSE pc' = "idle" /\ ret' = Raise(RemoteError)

\* BigQueryQuery.execute entering client._execute: the statement is
\* submitted; the service accepts it or raises
execute(accepted) ==
    /\ jobs' = Append(jobs, Job(arg.dml.stmt, query.query_parameters,
                                client.billing_project))
    /\ IF accepted
       THEN pc' = "result" /\ UNCHANGED ret
       ELSE pc' = "idle" /\ ret' = Raise(RemoteError)

\* query.result(): blocks until the job has finished or failed
result(finished) ==
    IF finished
    THEN pc' = "fetch" /\ UNCHANGED ret
    ELSE pc' = "idle" /\ ret' = Raise(RemoteError)

\* _fetch and _wrap_result: the reshaped result of the job is returned
fetch ==
    /\ ret' = Return([df |-> jobs[Len(jobs)].stmt])
    /\ pc' = "idle"

(***************************************************************************)
(* The inputs of the client and the steps of a call.                       *)
(***************************************************************************)
ProjectIds == {<<"billing">>, <<"data">>}

DatasetIds == {<<"ds">>, <<"data", "ds">>, <<"a", "b", "c">>}

Placeholders == {Param("p", Prim("int64")), Param("q", Prim("string"))}

SuppliedValues == {PyInt(1), PyStr(<<"x">>)}

\* the supplied values: at most one for each placeholder, in any order
SuppliedParams ==
    {s \in SeqsUpTo(Placeholders \X SuppliedValues,
                    Cardinality(Placeholders)) : IsUnique(Firsts(s))}

Dmls ==
    {Dml("SELECT", placeholders, params) :
        placeholders \in {Placeholders, {Param("p", Prim("int64"))}},
        params \in SuppliedParams}

DatabaseNames == {NoName, <<"ds2">>, <<"data2", "ds2">>, <<"a", "b", "c">>}

SetDatabase ==
    /\ pc = "idle"
    /\ \E name \in DatabaseNames :
           /\ name # NoName \/ Len(client.dataset) < MaxParts
           /\ set_database(name)
    /\ UNCHANGED <<pc, query, jobs>>

ExecuteQuery ==
    /\ pc = "idle"
    /\ \E dml \in Dmls, async \in BOOLEAN :
           /\ async \/ query.id < MaxQueries
           /\ execute_query(dml, async)

BindParameter ==
    /\ pc = "bind"
    /\ LET item == arg.dml.params[Len(query.query_parameters) + 1]
       IN  bind_parameter(item[1], item[2])
    /\ UNCHANGED <<op, arg, client, jobs>>

Execute ==
    /\ pc = "execute"
    /\ \E accepted \in BOOLEAN : execute(accepted)
    /\ UNCHANGED <<op, arg, client, query>>

Result ==
    /\ pc = "result"
    /\ \E finished \in BOOLEAN : result(finished)
    /\ UNCHANGED <<op, arg, client, query, jobs>>

Fetch ==
    /\ pc = "fetch"
    /\ fetch
    /\ UNCHANGED <<op, arg, client, query, jobs>>

(***************************************************************************)
(* C10: a call of _execute_query with async set fails at once with         *)
(* NotImplementedError, before any remote call: the step that begins the   *)
(* call ends it with that error, constructs no query, binds no parameter   *)
(* and submits nothing to the service.                                     *)
(***************************************************************************)
C10_AsyncFailsBeforeAnyRemoteCall ==
    [][(pc = "idle" /\ op' = "_execute_query" /\ arg'.async)
          => /\ pc' = "idle"
             /\ ret' = Raise("NotImplementedError")
             /\ query' = query
             /\ jobs' = jobs
             /\ client' = client]_vars

\* an async call is never at a position inside the construction, the
\* binding or the execution of a query
Client_AsyncCallHasNoPosition ==
    (op = "_execute_query" /\ arg.async)
        => pc = "idle" /\ ret = Raise("NotImplementedError")

\* an async call with values to bind has failed on a client that has run a
\* query before, and the query and the jobs are those of that earlier call
C10_Witness ==
    /\ op = "_execute_query"
    /\ arg.async
    /\ arg.dml.params # <<>>
    /\ pc = "idle"
    /\ ret = Raise("NotImplementedError")
    /\ query.id = 1
    /\ Len(jobs) = 1

\* a call without async has bound two values and returned a result
Client_WitnessCompleted ==
    /\ op = "_execute_query"
    /\ ~arg.async
    /\ pc = "idle"
    /\ ret.ok
    /\ Len(query.query_parameters) = 2
    /\ jobs # <<>>

(***************************************************************************)
(* C11: a query goes created -> parameters-bound -> submitted ->           *)
(* (completed | failed).  Every supplied value is bound in the             *)
(* constructor, so the statement is submitted only when all bindings have  *)
(* succeeded, and a query whose binding failed is never submitted; each    *)
(* execute() submits the statement to the service exactly once; an error   *)
(* of the service leaves _execute_query as it is, with no second           *)
(* submission and no result returned.                                      *)
(***************************************************************************)
\* the values of dml.context.params, bound in order
AllBound(dml) ==
    [k \in DOMAIN dml.params |->
       bigquery_param(dml.params[k][1], dml.params[k][2]).val]

\* every supplied value has a placeholder and a binding
AllBind(dml) ==
    \A k \in DOMAIN dml.params :
        /\ dml.params[k][1] \in dml.placeholders
        /\ bigquery_param(dml.params[k][1], dml.params[k][2]).ok

\* the state of the query of the call, in the words of the lifecycle
QueryState ==
    CASE pc = "bind" -> "created"
      [] pc = "execute" -> "parameters-bound"
      [] pc \in {"result", "fetch"} -> "submitted"
      [] pc = "idle" /\ op = "_execute_query" /\ ~arg.async ->
             IF ret.ok THEN "completed" ELSE "failed"
      [] OTHER -> "none"

\* what holds of the query at each state of the lifecycle: no query has
\* more than one job, and the query of the call has none before it is
\* submitted or when its construction has failed
C11_States ==
    /\ Len(jobs) <= query.id
    /\ QueryState = "created"
        => /\ Len(jobs) < query.id
           /\ Len(query.query_parameters) < Len(arg.dml.params)
    /\ QueryState = "parameters-bound"
        => /\ Len(jobs) < query.id
           /\ AllBind(arg.dml)
           /\ query.query_parameters = AllBound(arg.dml)
    /\ QueryState = "submitted"
        => /\ AllBind(arg.dml)
           /\ jobs[Len(jobs)] = Job(arg.dml.stmt, AllBound(arg.dml),
                                    client.billing_project)
    /\ QueryState = "completed"
        => /\ AllBind(arg.dml)
           /\ jobs[Len(jobs)] = Job(arg.dml.stmt, AllBound(arg.dml),
                                    client.billing_project)
    /\ (QueryState = "failed" /\ ~AllBind(arg.dml))
        => /\ Len(jobs) < query.id
           /\ ret.err \in {"KeyError", "NotImplementedError"}
    /\ (QueryState = "failed" /\ AllBind(arg.dml))
        => ret = Raise(RemoteError)

\* the steps of the lifecycle: the states follow each other in order, the
\* only step that submits is the one that leaves parameters-bound, and it
\* adds one job; a failure of the service ends the call with its error
C11_Steps ==
    /\ <<QueryState, QueryState'>> \in
           {<<"none", "created">>, <<"none", "parameters-bound">>,
            <<"completed", "created">>, <<"completed", "parameters-bound">>,
            <<"failed", "created">>, <<"failed", "parameters-bound">>,
            <<"created", "created">>, <<"created", "parameters-bound">>,
            <<"created", "failed">>,
            <<"parameters-bound", "submitted">>,
            <<"parameters-bound", "failed">>,
            <<"submitted", "submitted">>, <<"submitted", "completed">>,
            <<"submitted", "failed">>,
            <<"none", "none">>, <<"completed", "none">>,
            <<"failed", "none">>}
    /\ IF QueryState = "parameters-bound"
       THEN jobs' = Append(jobs, Job(arg.dml.stmt, query.query_parameters,
                                     client.billing_project))
       ELSE jobs' = jobs
    /\ (QueryState \in {"parameters-bound", "submitted"}
          /\ QueryState' = "failed")
        => ret' = Raise(RemoteError)
    /\ QueryState' = "completed" => pc = "fetch"

C11_QueryLifecycle == []C11_States /\ [][C11_Steps]_vars

\* the second query of a client has bound two values, was submitted and
\* has failed in the service; the first one had been submitted, too
C11_Witness ==
    /\ QueryState = "failed"
    /\ ret = Raise(RemoteError)
    /\ Len(arg.dml.params) = 2
    /\ query.id = 2
    /\ Len(jobs) = 2

\* a query whose second binding has failed, after a query that completed
C11_WitnessBindingFailed ==
    /\ QueryState = "failed"
    /\ ret = Raise("NotImplementedError")
    /\ Len(query.query_parameters) = 1
    /\ query.id = 2
    /\ Len(jobs) = 1

(***************************************************************************)
(* C12: after any sequence of set_database calls the billing project of    *)
(* the client is the project id it was constructed with.  set_database     *)
(* changes data_project and dataset only: a name "<project>.<dataset>"     *)
(* sets data_project to that project, and a bare dataset name sets         *)
(* data_project to the billing project, not to the data project selected   *)
(* before.                                                                 *)
(***************************************************************************)
\* the client as constructed: the billing project is the project id given
C12_Constructed ==
    op = "BigQueryClient" => client.billing_project = arg.project_id

\* no step changes the billing project, and a step of set_database changes
\* data_project and dataset as the name says and nothing else
C12_Step ==
    /\ client'.billing_project = client.billing_project
    /\ op' = "set_database"
        => /\ query' = query /\ jobs' = jobs /\ pc' = pc
           /\ Len(arg'.name) = 2
               => /\ client'.data_project = <<arg'.name[1]>>
                  /\ client'.dataset = <<arg'.name[2]>>
           /\ Len(arg'.name) = 1
               => /\ client'.data_project = client.billing_project
                  /\ client'.dataset = arg'.name
    /\ op' # "set_database"
        => /\ client'.data_project = client.data_project
           /\ client'.dataset = client.dataset

C12_BillingProjectKept == []C12_Constructed /\ [][C12_Step]_vars

\* the projects of the model are told apart by their billing project: the
\* jobs of a client all run under one project
Client_JobsUnderOneProject ==
    \A i \in DOMAIN jobs : jobs[i].project = client.billing_project

\* set_database with a bare name has run on a client constructed or set to
\* the data of another project, after a job of the client
C12_Witness ==
    /\ op = "set_database"
    /\ arg.name = <<"ds2">>
    /\ client.dataset = <<"ds2">>
    /\ client.data_project = client.billing_project
    /\ client.billing_project = <<"billing">>
    /\ jobs # <<>>

\* set_database with a name of a project and a dataset has run
C12_WitnessQualified ==
    /\ op = "set_database"
    /\ Len(arg.name) = 2
    /\ client.data_project = <<"data2">>
    /\ client.billing_project = <<"data">>

(***************************************************************************)
(* The specifications: one per component.                                  *)
(***************************************************************************)
InitSchema ==
    /\ \/ op \in {"Schema", "from_tuples"} /\ arg \in PairLists
       \/ op = "from_dict" /\ arg \in Dicts
    /\ pc = "call"
    /\ ret = NoCall
    /\ NoFacade

NextSchema == CallSchema \/ CallFromTuples \/ CallFromDict

SpecSchema == InitSchema /\ [][NextSchema]_vars

InitImport ==
    /\ \/ op = "bigquery_field_to_ibis_dtype" /\ arg \in Fields
       \/ op = "bigquery_schema" /\ arg \in Tables
    /\ pc = "call"
    /\ ret = NoCall
    /\ NoFacade

NextImport == CallFieldToDtype \/ CallBigquerySchema

SpecImport == InitImport /\ [][NextImport]_vars

InitBind ==
    /\ op = "bigquery_param"
    /\ arg \in [param : Params, value : Values]
    /\ pc = "call"
    /\ ret = NoCall
    /\ NoFacade

NextBind == CallBigqueryParam

SpecBind == InitBind /\ [][NextBind]_vars

InitInfer ==
    /\ \/ op = "infer_ibis_dtypes_from_series" /\ arg \in InferSeriesCalls
       \/ op = "infer_pandas_schema" /\ arg \in InferSchemaCalls
    /\ pc = "call"
    /\ ret = NoCall
    /\ NoFacade

NextInfer == CallInferSeries \/ CallInferSchema

SpecInfer == InitInfer /\ [][NextInfer]_vars

InitClient ==
    /\ op = "BigQueryClient"
    /\ arg \in [project_id : ProjectIds, dataset_id : DatasetIds]
    /\ client = BigQueryClient(arg.project_id, arg.dataset_id)
    /\ query = NoQuery
    /\ jobs = <<>>
    /\ pc = "idle"
    /\ ret = NoCall

NextClient ==
    ExecuteQuery \/ BindParameter \/ Execute \/ Result \/ Fetch \/ SetDatabase

SpecClient == InitClient /\ [][NextClient]_vars

====
